---- MODULE Spec2Model ----
(***************************************************************************)
(* Model of docs/potential/define-milky-way-model.ipynb: the four-         *)
(* component Milky Way potential builder (get_potential), the residual     *)
(* function (err_func) and the least-squares driver cell.                  *)
(*                                                                         *)
(* Numbers.  A physical quantity (a float64 mass or length) is a record    *)
(* [cls, ln, unit]: cls is "pos" (finite, > 0) or "zero" (exactly 0.0), ln *)
(* is its natural logarithm rounded to an integer and unit is the unit it  *)
(* carries ("galactic" for a bare number read in the galactic system).     *)
(* Log-parameters are integers.  A residual is an exact fraction           *)
(* [num, den]; den = 0 is numpy's non-finite result (inf or nan).          *)
(***************************************************************************)
EXTENDS Integers, Sequences, FiniteSets, TLC

VARIABLES tbl, x0, err, args, nfev, ncalls, p, pot, model_menc, fvec, ret,
          fit_potential, pc

vars == <<tbl, x0, err, args, nfev, ncalls, p, pot, model_menc, fvec, ret,
          fit_potential, pc>>

\* ------------------------------------------------------------------ bounds
\* Longest observation table of the fit (the shortest has 3 rows, one fewer
\* than there are parameters).
MaxRows == 4
\* Longest argument sequences of a direct call of err_func.
MaxLen == 2
\* Most residual evaluations one leastsq call makes in the model.
MaxFev == 3

\* Log-parameter values the inputs are drawn from: one below float64 exp's
\* underflow threshold, and two ordinary ones.
LogVals == {-746, 0, 1}
\* Radii (kpc) and uncertainties of the observation rows.
Radii == {1, 2}
ErrVals == {0, 1}

None == << >>

\* ------------------------------------------------------------ quantities
Quantity(cls, ln, unit) == [cls |-> cls, ln |-> ln, unit |-> unit]

\* np.exp on float64: exp(x) is 0.0 for x below about -745.13 (the smallest
\* subnormal is 4.9e-324 = exp(-744.4)), a positive finite number above it.
\* Inputs above 709 (overflow to inf) are outside the inputs of the model.
np_exp(x) ==
    IF x < -745 THEN Quantity("zero", 0, "galactic")
                ELSE Quantity("pos", x, "galactic")

\* q * u.<unit>: attach a unit to a bare number.
WithUnit(q, unit) == [q EXCEPT !.unit = unit]

\* ----------------------------------------------------- composite potential
\* mw_potential[key] = component: dictionary assignment.
SetItem(d, key, comp) ==
    [k \in (DOMAIN d) \cup {key} |-> IF k = key THEN comp ELSE d[k]]

\* A float64 given directly (not through np.exp).
FloatOf(x) ==
    Quantity(IF x > 0 THEN "pos" ELSE IF x = 0 THEN "zero" ELSE "neg", 0, "galactic")

\* get_potential with the halo stored under the key 'nucl'.
get_potential_samekey(log_M_h, log_r_s, log_M_n, log_a) ==
    LET mw1 == SetItem(None, "bulge",
                 [cls |-> "Hernquist",
                  m |-> Quantity("pos", 22, "galactic"),
                  c |-> Quantity("pos", 0, "galactic")])
        mw2 == SetItem(mw1, "disk",
                 [cls |-> "MiyamotoNagai",
                  m |-> Quantity("pos", 25, "Msun"),
                  a |-> Quantity("pos", 1, "kpc"),
                  b |-> Quantity("pos", 6, "pc")])
        mw3 == SetItem(mw2, "nucl",
                 [cls |-> "Hernquist",
                  m |-> np_exp(log_M_n),
                  c |-> WithUnit(np_exp(log_a), "pc")])
        mw4 == SetItem(mw3, "nucl",
                 [cls |-> "NFW",
                  m |-> np_exp(log_M_h),
                  r_s |-> np_exp(log_r_s)])
    IN  mw4

\* get_potential with the nucleus scale length not exponentiated.
get_potential_rawscale(log_M_h, log_r_s, log_M_n, log_a) ==
    LET mw1 == SetItem(None, "bulge",
                 [cls |-> "Hernquist",
                  m |-> Quantity("pos", 22, "galactic"),
                  c |-> Quantity("pos", 0, "galactic")])
        mw2 == SetItem(mw1, "disk",
                 [cls |-> "MiyamotoNagai",
                  m |-> Quantity("pos", 25, "Msun"),
                  a |-> Quantity("pos", 1, "kpc"),
                  b |-> Quantity("pos", 6, "pc")])
        mw3 == SetItem(mw2, "nucl",
                 [cls |-> "Hernquist",
                  m |-> np_exp(log_M_n),
                  c |-> WithUnit(FloatOf(log_a), "pc")])
        mw4 == SetItem(mw3, "halo",
                 [cls |-> "NFW",
                  m |-> np_exp(log_M_h),
                  r_s |-> np_exp(log_r_s)])
    IN  mw4

\* get_potential with the halo and nucleus reading each other's parameters.
get_potential_swapped(log_M_h, log_r_s, log_M_n, log_a) ==
    LET mw1 == SetItem(None, "bulge",
                 [cls |-> "Hernquist",
                  m |-> Quantity("pos", 22, "galactic"),
                  c |-> Quantity("pos", 0, "galactic")])
        mw2 == SetItem(mw1, "disk",
                 [cls |-> "MiyamotoNagai",
                  m |-> Quantity("pos", 25, "Msun"),
                  a |-> Quantity("pos", 1, "kpc"),
                  b |-> Quantity("pos", 6, "pc")])
        mw3 == SetItem(mw2, "nucl",
                 [cls |-> "Hernquist",
                  m |-> np_exp(log_M_h),
                  c |-> WithUnit(np_exp(log_r_s), "pc")])
        mw4 == SetItem(mw3, "halo",
                 [cls |-> "NFW",
                  m |-> np_exp(log_M_n),
                  r_s |-> np_exp(log_a)])
    IN  mw4

get_potential(log_M_h, log_r_s, log_M_n, log_a) ==
    LET mw0 == None
        \* m=5E9, c=1.  (ln 5e9 = 22.3, ln 1 = 0)
        mw1 == SetItem(mw0, "bulge",
                 [cls |-> "Hernquist",
                  m |-> Quantity("pos", 22, "galactic"),
                  c |-> Quantity("pos", 0, "galactic")])
        \* m=6.8E10 Msun, a=3 kpc, b=280 pc  (ln: 24.9, 1.1, 5.6)
        mw2 == SetItem(mw1, "disk",
                 [cls |-> "MiyamotoNagai",
                  m |-> Quantity("pos", 25, "Msun"),
                  a |-> Quantity("pos", 1, "kpc"),
                  b |-> Quantity("pos", 6, "pc")])
        mw3 == SetItem(mw2, "nucl",
                 [cls |-> "Hernquist",
                  m |-> np_exp(log_M_n),
                  c |-> WithUnit(np_exp(log_a), "pc")])
        mw4 == SetItem(mw3, "halo",
                 [cls |-> "NFW",
                  m |-> np_exp(log_M_h),
                  r_s |-> np_exp(log_r_s)])
    IN  mw4

\* -------------------------------------------------- enclosed mass (gala)
\* Integer stand-in for the magnitude of a quantity in galactic units
\* (1 pc = 1e-3 kpc, ln 1000 = 6.9): 0 for 0.0, and positive and increasing
\* in the quantity otherwise.
Mag(q) ==
    IF q.cls = "zero" THEN 0
    ELSE (IF q.unit = "pc" THEN q.ln - 7 ELSE q.ln) + 8

\* Enclosed mass of one component within radius r > 0.  The closed forms
\* belong to the potential library; these are integer stand-ins that depend
\* on exactly the component's own parameters and on r.
HernquistMenc(comp, r) ==
    (100 * Mag(comp.m) * r * r) \div ((r + Mag(comp.c)) * (r + Mag(comp.c)))

MiyamotoNagaiMenc(comp, r) ==
    (100 * Mag(comp.m) * r) \div (r + Mag(comp.a) + Mag(comp.b))

NFWMenc(comp, r) ==
    (100 * Mag(comp.m) * r) \div (r + Mag(comp.r_s))

ComponentMenc(comp, r) ==
    CASE comp.cls = "Hernquist" -> HernquistMenc(comp, r)
      [] comp.cls = "MiyamotoNagai" -> MiyamotoNagaiMenc(comp, r)
      [] comp.cls = "NFW" -> NFWMenc(comp, r)

RECURSIVE SumMenc(_, _, _)
SumMenc(composite, keys, r) ==
    IF keys = {} THEN 0
    ELSE LET k == CHOOSE x \in keys : TRUE
         IN  ComponentMenc(composite[k], r) + SumMenc(composite, keys \ {k}, r)

\* |q| of one column of a (3, N) position array.
ColumnRadius(xyz, i) ==
    LET s == xyz[1][i] * xyz[1][i] + xyz[2][i] * xyz[2][i] + xyz[3][i] * xyz[3][i]
    IN  CHOOSE d \in 0..s : d * d = s

\* CCompositePotential.mass_enclosed(xyz): one mass per column of xyz, the
\* sum of the components' enclosed masses at that column's radius.
mass_enclosed(composite, xyz) ==
    [i \in 1..Len(xyz[1]) |->
        SumMenc(composite, DOMAIN composite, ColumnRadius(xyz, i))]

\* ------------------------------------------------------ residual function
Frac(n, d) == [num |-> n, den |-> d]
IsFinite(f) == f.den # 0
IsZero(f) == f.den # 0 /\ f.num = 0

\* np.zeros((3, n))
np_zeros3(n) == [row \in 1..3 |-> [i \in 1..n |-> 0]]

\* err_func returning (Menc - model_menc) / Menc_err.
err_func_reversed(pp, r, Menc, Menc_err) ==
    LET pot_ == get_potential(pp[1], pp[2], pp[3], pp[4])
        xyz == [np_zeros3(Len(r)) EXCEPT ![1] = r]
        model_menc_ == mass_enclosed(pot_, xyz)
    IN  [pot |-> pot_,
         model_menc |-> model_menc_,
         result |-> [i \in 1..Len(r) |->
                       Frac(Menc[i] - model_menc_[i], Menc_err[i])]]

\* err_func returning (model_menc - Menc_err) / Menc.
err_func_wrongargs(pp, r, Menc, Menc_err) ==
    LET pot_ == get_potential(pp[1], pp[2], pp[3], pp[4])
        xyz == [np_zeros3(Len(r)) EXCEPT ![1] = r]
        model_menc_ == mass_enclosed(pot_, xyz)
    IN  [pot |-> pot_,
         model_menc |-> model_menc_,
         result |-> [i \in 1..Len(r) |->
                       Frac(model_menc_[i] - Menc_err[i], Menc[i])]]

\* err_func(p, r, Menc, Menc_err); the record holds its locals and its
\* return value.
err_func(pp, r, Menc, Menc_err) ==
    LET pot_ == get_potential(pp[1], pp[2], pp[3], pp[4])
        xyz == [np_zeros3(Len(r)) EXCEPT ![1] = r]
        model_menc_ == mass_enclosed(pot_, xyz)
    IN  [pot |-> pot_,
         model_menc |-> model_menc_,
         result |-> [i \in 1..Len(r) |->
                       Frac(model_menc_[i] - Menc[i], Menc_err[i])]]

\* ------------------------------------------------------------ the driver
\* x0 = [np.log(6E11), np.log(20.), np.log(2E9), np.log(100.)], rounded:
\* units [Msun, kpc, Msun, pc].
InitialGuess == <<27, 3, 21, 5>>

\* Parameter vectors the optimizer may try after the initial guess.
Iterates == {InitialGuess, <<1, 0, 1, 0>>, <<-746, 1, 0, 1>>}

\* Observation tables: row i lies at radius i kpc.
Row(i, e) == [r |-> i, Menc |-> 100, Menc_err_neg |-> e[1], Menc_err_pos |-> e[2]]
Tables == UNION {{[i \in 1..n |-> Row(i, e[i])] : e \in [1..n -> ErrVals \X ErrVals]} :
                 n \in 3..MaxRows}

\* tbl['name']: one column of the table.
Column(t, name) == [i \in 1..Len(t) |-> t[i][name]]

Max(a, b) == IF a >= b THEN a ELSE b

Min(a, b) == IF a <= b THEN a ELSE b

\* np.min(arrays, axis=0) in place of np.max.
RECURSIVE np_min_axis0(_)
np_min_axis0(arrays) ==
    IF Len(arrays) = 1 THEN arrays[1]
    ELSE LET rest == np_min_axis0(Tail(arrays))
         IN  [i \in 1..Len(arrays[1]) |-> Min(arrays[1][i], rest[i])]

\* np.max(arrays, axis=0): the elementwise maximum over the stacked arrays.
RECURSIVE np_max_axis0(_)
np_max_axis0(arrays) ==
    IF Len(arrays) = 1 THEN arrays[1]
    ELSE LET rest == np_max_axis0(Tail(arrays))
         IN  [i \in 1..Len(arrays[1]) |-> Max(arrays[1][i], rest[i])]

\* range(a, b)
Range(a, b) == a..(b - 1)

\* assert ier in range(1,4)
AssertPasses_short(ier) == ier \in Range(1, 4)

\* assert ier in range(1,4+1)
AssertPasses(ier) == ier \in Range(1, 4 + 1)

\* err_func keeping the potential of its first call instead of building one.
EvalResidual_cached(q, a) ==
    LET pot_ == IF pot = None THEN get_potential(q[1], q[2], q[3], q[4]) ELSE pot
        mm == mass_enclosed(pot_, [np_zeros3(Len(a[1])) EXCEPT ![1] = a[1]])
    IN  /\ p' = q
        /\ pot' = pot_
        /\ model_menc' = mm
        /\ fvec' = [i \in 1..Len(a[1]) |-> Frac(mm[i] - a[2][i], a[3][i])]

\* One call of err_func(q, *a) by the optimizer: a fresh potential is built
\* from q, and nothing of an earlier call is read.
EvalResidual(q, a) ==
    LET res == err_func(q, a[1], a[2], a[3])
    IN  /\ p' = q
        /\ pot' = res.pot
        /\ model_menc' = res.model_menc
        /\ fvec' = res.result

Init ==
    /\ tbl \in Tables
    /\ x0 = InitialGuess
    /\ err = None
    /\ args = None
    /\ nfev = 0
    /\ ncalls = 0
    /\ p = None
    /\ pot = None
    /\ model_menc = None
    /\ fvec = None
    /\ ret = None
    /\ fit_potential = None
    /\ pc = "line223"

\* err = np.max([tbl['Menc_err_pos'], tbl['Menc_err_neg']], axis=0)
Line223 ==
    /\ pc = "line223"
    /\ err' = np_max_axis0(<<Column(tbl, "Menc_err_pos"), Column(tbl, "Menc_err_neg")>>)
    /\ pc' = "line224"
    /\ UNCHANGED <<tbl, x0, args, nfev, ncalls, p, pot, model_menc, fvec, ret,
                   fit_potential>>

\* leastsq(err_func, x0=x0, args=(tbl['r'], tbl['Menc'], err)) is entered:
\* the arguments are bound and the residual is evaluated at x0; leastsq
\* raises at once when there are more parameters than residuals.
LeastsqCall ==
    /\ pc = "line224"
    /\ args' = <<Column(tbl, "r"), Column(tbl, "Menc"), err>>
    /\ EvalResidual(x0, args')
    /\ nfev' = 1
    /\ ncalls' = ncalls + 1
    /\ pc' = IF Len(x0) > Len(fvec') THEN "failed" ELSE "leastsq"
    /\ UNCHANGED <<tbl, x0, err, ret, fit_potential>>

\* The optimizer evaluates the residual at another parameter vector.
LeastsqEval ==
    /\ pc = "leastsq"
    /\ nfev < MaxFev
    /\ \E q \in Iterates : EvalResidual(q, args)
    /\ nfev' = nfev + 1
    /\ UNCHANGED <<tbl, x0, err, args, ncalls, ret, fit_potential, pc>>

\* Some residual is non-finite whatever the parameters: its uncertainty is 0.
SomeNonFinite(a) == \E i \in 1..Len(a[3]) : a[3][i] = 0

\* The status (MINPACK's info) leastsq can end with.  With a non-finite
\* residual every norm is nan or inf: the scaled gradient norm, a running
\* maximum started at 0, either stays 0 (a max that drops nan: info = 4, as
\* gtol = 0) or becomes nan (no test is ever met: info = 5 at maxfev).
\* Otherwise any status 1..8 is possible.
LeastsqStatus(a) == IF SomeNonFinite(a) THEN {4, 5} ELSE 1..8

\* leastsq returns (x, info): the parameter vector it holds (here the
\* initial guess or the last one evaluated) and the status (with a warning
\* for 5..8).
LeastsqReturn ==
    /\ pc = "leastsq"
    /\ \E info \in LeastsqStatus(args), xbest \in {x0, p} :
         /\ SomeNonFinite(args) => xbest = x0
         /\ ret' = <<xbest, info>>
    /\ pc' = "line225"
    /\ UNCHANGED <<tbl, x0, err, args, nfev, ncalls, p, pot, model_menc, fvec,
                   fit_potential>>

\* The assertion not halting the cell.
Line225_nohalt ==
    /\ pc = "line225"
    /\ pc' = "line226"
    /\ UNCHANGED <<tbl, x0, err, args, nfev, ncalls, p, pot, model_menc, fvec,
                   ret, fit_potential>>

\* assert ier in range(1,4+1), "least-squares fit failed!"
Line225 ==
    /\ pc = "line225"
    /\ pc' = IF AssertPasses(ret[2]) THEN "line226" ELSE "failed"
    /\ UNCHANGED <<tbl, x0, err, args, nfev, ncalls, p, pot, model_menc, fvec,
                   ret, fit_potential>>

\* fit_potential = get_potential(*p_opt)
Line226 ==
    /\ pc = "line226"
    /\ fit_potential' = get_potential(ret[1][1], ret[1][2], ret[1][3], ret[1][4])
    /\ pc' = "converged"
    /\ UNCHANGED <<tbl, x0, err, args, nfev, ncalls, p, pot, model_menc, fvec,
                   ret>>

Next ==
    \/ Line223
    \/ LeastsqCall
    \/ LeastsqEval
    \/ LeastsqReturn
    \/ Line225
    \/ Line226

Spec == Init /\ [][Next]_vars

\* ------------------------------------------- direct calls of the functions
\* Every parameter vector over LogVals, and the initial guess.
ParamVecs == [1..4 -> LogVals] \cup {InitialGuess}

\* Enclosed mass of a composite at one radius.
MencAt(composite, r) == mass_enclosed(composite, <<<<r>>, <<0>>, <<0>>>>)[1]

\* Parameter vectors that synthetic observations are generated from.
TrueParams == {InitialGuess, <<1, 0, 1, 0>>}

\* Arguments (r, Menc, Menc_err) of err_func: the masses are those of a true
\* model, all exact or all off by one; the uncertainties are 0 or 2.
FuncArgs ==
    UNION {{<<r, [i \in 1..n |->
                   MencAt(get_potential(q[1], q[2], q[3], q[4]), r[i]) + noise],
              e>> :
              r \in [1..n -> Radii], noise \in {0, 1}, e \in [1..n -> {0, 2}]} :
           n \in 1..MaxLen, q \in TrueParams}

FuncInit ==
    /\ tbl = None
    /\ x0 = InitialGuess
    /\ err = None
    /\ args \in FuncArgs
    /\ nfev = 0
    /\ ncalls = 0
    /\ p \in ParamVecs
    /\ pot = None
    /\ model_menc = None
    /\ fvec = None
    /\ ret = None
    /\ fit_potential = None
    /\ pc = "idle"

\* pot = get_potential(*p)
CallGetPotential ==
    /\ pc = "idle"
    /\ pot' = get_potential(p[1], p[2], p[3], p[4])
    /\ pc' = "get_potential"
    /\ UNCHANGED <<tbl, x0, err, args, nfev, ncalls, p, model_menc, fvec, ret,
                   fit_potential>>

\* pot.mass_enclosed(xyz) at the radii of the arguments
CallMassEnclosed ==
    /\ pc = "get_potential"
    /\ model_menc' = mass_enclosed(pot, [np_zeros3(Len(args[1])) EXCEPT ![1] = args[1]])
    /\ pc' = "mass_enclosed"
    /\ UNCHANGED <<tbl, x0, err, args, nfev, ncalls, p, pot, fvec, ret,
                   fit_potential>>

\* err_func(p, r, Menc, Menc_err)
CallErrFunc ==
    /\ pc = "idle"
    /\ EvalResidual(p, args)
    /\ pc' = "err_func"
    /\ UNCHANGED <<tbl, x0, err, args, nfev, ncalls, ret, fit_potential>>

FuncNext ==
    \/ CallGetPotential
    \/ CallMassEnclosed
    \/ CallErrFunc

FuncSpec == FuncInit /\ [][FuncNext]_vars

\* ================================================================ claims
Terminal == {"converged", "failed"}
SuccessCodes == {1, 2, 3, 4}

\* The status held in each state of the driver, and the codes the assertion
\* lets through.
C1_StatusInv ==
    /\ \A c \in -2..10 : AssertPasses(c) <=> c \in SuccessCodes
    /\ pc \in {"line226", "converged"} => ret # None /\ ret[2] \in SuccessCodes
    /\ (pc = "failed" /\ ret # None) => ret[2] \notin SuccessCodes

\* C1: the driver ends converged exactly when the status leastsq returned is
\* one of 1, 2, 3, 4, and failed for every other status: the assertion
\* passes for exactly these codes, a run past the assertion holds one of
\* them, a run that failed after leastsq returned holds another one, and the
\* step from the assertion goes to the side the status decides.
C1_StatusDecides ==
    /\ []C1_StatusInv
    /\ [][pc = "line225" =>
            pc' = IF ret[2] \in SuccessCodes THEN "line226" ELSE "failed"]_vars
    /\ [][pc = "line226" => pc' = "converged"]_vars

C1_Witness == pc = "converged" /\ ret[2] = 4 /\ nfev = MaxFev

\* What a state of the driver holds of the optimizer calls and of the fitted
\* potential.
C2_SingleRunInv ==
    /\ ncalls <= 1
    /\ pc = "failed" => fit_potential = None
    /\ fit_potential # None =>
         /\ pc = "converged"
         /\ ret[2] \in SuccessCodes
         /\ fit_potential = get_potential(ret[1][1], ret[1][2], ret[1][3], ret[1][4])

\* C2: the fit is one run to one terminal state: leastsq is entered at most
\* once, nothing happens after converged or failed, a failed run holds no
\* fitted potential, and a fitted potential exists only in the converged
\* state, built from the returned vector after the status passed the check.
C2_SingleRun ==
    /\ []C2_SingleRunInv
    /\ [][pc \notin Terminal]_vars

C2_Witness ==
    pc = "failed" /\ ret # None /\ ret[2] = 5 /\ ncalls = 1 /\ fit_potential = None

\* C3: when every residual evaluation returns only non-finite values, the
\* driver never gets past the assertion and never builds a fitted potential.
C3_NonFiniteAlwaysFails ==
    (/\ args # None
     /\ \A q \in Iterates : \A i \in 1..Len(args[1]) :
            ~IsFinite(err_func(q, args[1], args[2], args[3]).result[i]))
    => (pc \notin {"line226", "converged"} /\ fit_potential = None)

\* C4: err_func(p, r, Menc, Menc_err) returns as many residuals as there are
\* observations, the i-th being (M_model(r_i) - Menc_i) / Menc_err_i with
\* M_model the enclosed mass of get_potential(*p).
C4_ResidualFormula ==
    pc = "err_func" =>
        /\ DOMAIN fvec = 1..Len(args[1])
        /\ \A i \in 1..Len(args[1]) :
             fvec[i] = Frac(MencAt(get_potential(p[1], p[2], p[3], p[4]), args[1][i])
                              - args[2][i],
                            args[3][i])

C4_Witness ==
    /\ pc = "err_func"
    /\ Len(args[1]) = 2
    /\ args[1][1] > args[1][2]
    /\ fvec[1].num < 0 /\ fvec[2].num < 0
    /\ fvec[1].num # fvec[2].num
    /\ fvec[1].den = 2 /\ fvec[2].den = 0

\* The observed masses are the model's own and no uncertainty is zero.
PerfectFit ==
    /\ \A i \in 1..Len(args[1]) :
         args[2][i] = MencAt(get_potential(p[1], p[2], p[3], p[4]), args[1][i])
    /\ \A i \in 1..Len(args[1]) : args[3][i] # 0

\* C5: when every observed mass is exactly the enclosed mass of
\* get_potential(*p) at its radius and no uncertainty is zero, every
\* residual is zero.
C5_ZeroAtPerfectFit ==
    (pc = "err_func" /\ PerfectFit) => \A i \in 1..Len(args[1]) : IsZero(fvec[i])

C5_Witness ==
    /\ pc = "err_func"
    /\ PerfectFit
    /\ Len(args[1]) = 2
    /\ args[1][1] # args[1][2]
    /\ p # InitialGuess

\* C6: the composite has exactly the components bulge, disk, nucl and halo,
\* and its enclosed mass at each radius is the sum of their enclosed masses.
C6_Additivity ==
    pc \in {"mass_enclosed", "err_func"} =>
        /\ DOMAIN pot = {"bulge", "disk", "nucl", "halo"}
        /\ \A i \in 1..Len(args[1]) :
             model_menc[i] = ComponentMenc(pot["bulge"], args[1][i])
                               + ComponentMenc(pot["disk"], args[1][i])
                               + ComponentMenc(pot["nucl"], args[1][i])
                               + ComponentMenc(pot["halo"], args[1][i])

C6_Witness ==
    /\ pc = "mass_enclosed"
    /\ ComponentMenc(pot["bulge"], args[1][1]) > 0
    /\ ComponentMenc(pot["disk"], args[1][1]) > 0
    /\ ComponentMenc(pot["nucl"], args[1][1]) > 0
    /\ ComponentMenc(pot["halo"], args[1][1]) > 0

\* The quantities get_potential passes to the halo and the nucleus, in the
\* order of the parameters they come from.
Passed == <<pot["halo"].m, pot["halo"].r_s, pot["nucl"].m, pot["nucl"].c>>

\* C7 as stated: every quantity passed to the nucleus and the halo is
\* strictly positive, whatever the finite log-parameters.
C7_AlwaysPositive ==
    pc \in {"get_potential", "err_func"} => \A k \in 1..4 : Passed[k].cls = "pos"

\* C7 as amended: every quantity passed to the nucleus and the halo is
\* non-negative, and strictly positive exactly when its log-parameter is at
\* least -745 (below, np.exp underflows to 0.0).
C7_PositiveAboveUnderflow ==
    pc \in {"get_potential", "err_func"} =>
        \A k \in 1..4 :
            /\ Passed[k].cls \in {"pos", "zero"}
            /\ Passed[k].cls = "pos" <=> p[k] >= -745

C7_Witness ==
    /\ pc = "get_potential"
    /\ p[1] = -746 /\ Passed[1].cls = "zero"
    /\ p[4] = 0 /\ Passed[4].cls = "pos"

\* C9: bulge and disk are the same for every parameter vector (those of the
\* potential of the initial guess x0); the halo is built from the 1st and
\* 2nd parameters and the nucleus from the 3rd and 4th, each exponentiated,
\* whether the vector comes from a direct call or from err_func's
\* get_potential(*p).
C9_Wiring ==
    pc \in {"get_potential", "err_func"} =>
        /\ LET ref == get_potential(x0[1], x0[2], x0[3], x0[4])
           IN  pot["bulge"] = ref["bulge"] /\ pot["disk"] = ref["disk"]
        /\ pot["halo"] = [cls |-> "NFW", m |-> np_exp(p[1]), r_s |-> np_exp(p[2])]
        /\ pot["nucl"] = [cls |-> "Hernquist", m |-> np_exp(p[3]),
                          c |-> WithUnit(np_exp(p[4]), "pc")]

C9_Witness ==
    /\ pc = "err_func"
    /\ p = InitialGuess
    /\ pot["halo"].m.ln = 27 /\ pot["halo"].r_s.ln = 3
    /\ pot["nucl"].m.ln = 21 /\ pot["nucl"].c.ln = 5

\* The uncertainty vector against the table, the bound arguments and the
\* last residual.
C8_ErrInv ==
    /\ ncalls > 0 => err # None
    /\ err # None =>
         /\ DOMAIN err = 1..Len(tbl)
         /\ \A i \in 1..Len(tbl) :
              /\ err[i] \in {tbl[i].Menc_err_pos, tbl[i].Menc_err_neg}
              /\ err[i] >= tbl[i].Menc_err_pos
              /\ err[i] >= tbl[i].Menc_err_neg
              /\ err[i] = 0 <=> (tbl[i].Menc_err_pos = 0 /\ tbl[i].Menc_err_neg = 0)
    /\ args # None => args[3] = err
    /\ fvec # None => \A i \in 1..Len(tbl) : fvec[i].den = err[i]

\* C8: the uncertainty of observation i is the larger of its two tabulated
\* uncertainties: one of the two, at least both, zero only when both are;
\* it is computed before leastsq is entered, never changes afterwards, and
\* is the divisor of every residual evaluated.
C8_SymmetricError ==
    /\ []C8_ErrInv
    /\ [][err # None => err' = err]_vars

C8_Witness ==
    /\ nfev = 2
    /\ tbl[1].Menc_err_pos > tbl[1].Menc_err_neg
    /\ tbl[2].Menc_err_pos < tbl[2].Menc_err_neg
    /\ tbl[3].Menc_err_pos = 0 /\ tbl[3].Menc_err_neg = 0
    /\ err[1] = 1 /\ err[2] = 1 /\ err[3] = 0
    /\ fvec[1].den = 1 /\ fvec[3].den = 0

\* The last evaluation against a fresh evaluation at the same vector.
C10_FreshInv ==
    nfev > 0 =>
        /\ pot = get_potential(p[1], p[2], p[3], p[4])
        /\ fvec = err_func(p, Column(tbl, "r"), Column(tbl, "Menc"), err).result

\* C10: every residual evaluation uses a potential built from its own
\* parameter vector and returns what err_func gives for that vector and the
\* observations, whatever was evaluated before; no step changes the table,
\* the initial guess or the uncertainty vector once computed.
C10_Stateless ==
    /\ []C10_FreshInv
    /\ [][tbl' = tbl /\ x0' = x0 /\ (err # None => err' = err)]_vars

C10_Witness ==
    /\ pc = "converged"
    /\ nfev = MaxFev
    /\ p # x0
    /\ ret[1] = x0
    /\ fvec[1].num # 0

====
